---- MODULE Spec2Model ----
(***************************************************************************)
(* Process identity switching (src/src/sys/user.rs) and lexical path       *)
(* handling (src/sys/src/path.rs) of the rs / fungus crates.               *)
(*                                                                         *)
(* The process credentials are the six ids the kernel keeps: real,         *)
(* effective and saved user id and group id.  The environment holds        *)
(* SUDO_UID and SUDO_GID, HOME and the XDG variables.  Strings are         *)
(* sequences of one-character strings.                                     *)
(***************************************************************************)
EXTENDS Integers, Sequences, FiniteSets, TLC

VARIABLES ids, env, last, dropped, passwd, input, out, cwd, fs, tmp, scope

vars == <<ids, env, last, dropped, passwd, input, out, cwd, fs, tmp, scope>>

\* ---------------------------------------------------------------- bounds
\* user and group ids range over 0..MaxId
MaxId == 1

\* paths have at most MaxPathLen characters
MaxPathLen == 4

\* clean is applied to its own result at most MaxClean times in a row
MaxClean == 2

\* lookup calls nested deeper than this are cut off
MaxNesting == 3

\* at most MaxCalls calls of the directory functions are followed
MaxCalls == 2

\* at most MaxTemp calls of temp_dir and remove_all are followed
MaxTemp == 3

\* at most MaxGuards guards are made
MaxGuards == 3

\* what follows the protocol prefixes of a path has at most MaxRestLen characters
MaxRestLen == 2

\* the id of root, the privileged user and group
Root == 0

\* u32::MAX / 10 and u32::MAX % 10: parse::<u32>() rejects a number whose
\* next digit would take it past u32::MAX
U32MaxDiv10 == 429496729

U32MaxMod10 == 5

\* the number of random characters at the end of a temporary directory's name
SuffixLen == 8

Ids == 0..MaxId

\* ------------------------------------------------------------ environment
\* env::var(name) is Err when the variable is not set
Unset == [set |-> FALSE, val |-> <<>>]

Var(s) == [set |-> TRUE, val |-> s]

DigitChars == <<"0", "1", "2", "3", "4", "5", "6", "7", "8", "9">>

IsDigit(c) == \E i \in 1..Len(DigitChars) : DigitChars[i] = c

DigitVal(c) == (CHOOSE i \in 1..Len(DigitChars) : DigitChars[i] = c) - 1

ParseErr == [ok |-> FALSE, val |-> 0]

\* the digits of an unsigned decimal number, most significant first; any
\* other character, or a value that does not fit in 32 bits, is an error
RECURSIVE ParseDigits(_, _)
ParseDigits(s, acc) ==
    IF s = <<>> THEN [ok |-> TRUE, val |-> acc]
    ELSE IF ~IsDigit(Head(s)) THEN ParseErr
    ELSE LET d == DigitVal(Head(s))
         IN  IF acc > U32MaxDiv10 \/ (acc = U32MaxDiv10 /\ d > U32MaxMod10)
             THEN ParseErr
             ELSE ParseDigits(Tail(s), acc * 10 + d)

\* str::parse::<u32>(): empty, a lone sign and a leading "-" are errors, a
\* leading "+" is accepted
ParseU32(s) ==
    IF s = <<>> THEN ParseErr
    ELSE IF Len(s) = 1 /\ Head(s) \in {"+", "-"} THEN ParseErr
    ELSE IF Head(s) = "+" THEN ParseDigits(Tail(s), 0)
    ELSE ParseDigits(s, 0)

\* mutant: SUDO_UID and SUDO_GID returned whatever uid is asked about
getrids_any_uid(uid, gid) ==
    IF env.SUDO_UID.set /\ env.SUDO_GID.set
    THEN LET u == ParseU32(env.SUDO_UID.val)
             g == ParseU32(env.SUDO_GID.val)
         IN  IF u.ok /\ g.ok THEN <<u.val, g.val>> ELSE <<uid, gid>>
    ELSE <<uid, gid>>

\* getrids(uid, gid): the ids behind sudo for the GIVEN uid
getrids(uid, gid) ==
    IF uid = Root
    THEN IF env.SUDO_UID.set /\ env.SUDO_GID.set
         THEN LET u == ParseU32(env.SUDO_UID.val)
                  g == ParseU32(env.SUDO_GID.val)
              IN  IF u.ok /\ g.ok THEN <<u.val, g.val>> ELSE <<uid, gid>>
         ELSE <<uid, gid>>
    ELSE <<uid, gid>>

\* ------------------------------------------------------------- credentials
Cred(ru, eu, su, rg, eg, sg) ==
    [ruid |-> ru, euid |-> eu, suid |-> su, rgid |-> rg, egid |-> eg, sgid |-> sg]

\* libc::getuid() is the REAL user id
getuid(c) == c.ruid

geteuid(c) == c.euid

is_root(c) == getuid(c) = Root

\* the process may set ids freely while its effective uid is root; the ids of
\* the model are ids a user or group can have, so the argument (uid_t)-1, which
\* setresuid(2) and setresgid(2) read as "leave this id as it is", is not among them
Privileged(c) == c.euid = Root

\* setresgid(2): an unprivileged process may set each id only to one of the
\* current real, effective or saved gid; on failure nothing changes
setresgid(c, rgid, egid, sgid) ==
    IF Privileged(c) \/ {rgid, egid, sgid} \subseteq {c.rgid, c.egid, c.sgid}
    THEN [ret |-> 0, cred |-> [c EXCEPT !.rgid = rgid, !.egid = egid, !.sgid = sgid]]
    ELSE [ret |-> -1, cred |-> c]

\* setresuid(2): likewise for the user ids
setresuid(c, ruid, euid, suid) ==
    IF Privileged(c) \/ {ruid, euid, suid} \subseteq {c.ruid, c.euid, c.suid}
    THEN [ret |-> 0, cred |-> [c EXCEPT !.ruid = ruid, !.euid = euid, !.suid = suid]]
    ELSE [ret |-> -1, cred |-> c]

Call(fn, ret) == [fn |-> fn, ret |-> ret]

\* mutant: the user ids are set even when setting the group ids failed
switchuser_ignore_gid_error(c, ruid, euid, suid, rgid, egid, sgid) ==
    LET g == setresgid(c, rgid, egid, sgid)
        u == setresuid(g.cred, ruid, euid, suid)
    IN  [res   |-> IF g.ret = 0 /\ u.ret = 0 THEN "Ok" ELSE "EPERM",
         cred  |-> u.cred,
         calls |-> <<Call("setresgid", g.ret), Call("setresuid", u.ret)>>]

\* mutant: the user ids are set first, the group ids second
switchuser_uid_first(c, ruid, euid, suid, rgid, egid, sgid) ==
    LET u == setresuid(c, ruid, euid, suid)
    IN  IF u.ret = 0
        THEN LET g == setresgid(u.cred, rgid, egid, sgid)
             IN  [res   |-> IF g.ret = 0 THEN "Ok" ELSE "EPERM",
                  cred  |-> g.cred,
                  calls |-> <<Call("setresuid", u.ret), Call("setresgid", g.ret)>>]
        ELSE [res |-> "EPERM", cred |-> u.cred, calls |-> <<Call("setresuid", u.ret)>>]

\* mutant: the result of setresuid is not looked at
switchuser_ignore_uid_error(c, ruid, euid, suid, rgid, egid, sgid) ==
    LET g == setresgid(c, rgid, egid, sgid)
    IN  IF g.ret = 0
        THEN LET u == setresuid(g.cred, ruid, euid, suid)
             IN  [res   |-> "Ok",
                  cred  |-> u.cred,
                  calls |-> <<Call("setresgid", g.ret), Call("setresuid", u.ret)>>]
        ELSE [res |-> "EPERM", cred |-> g.cred, calls |-> <<Call("setresgid", g.ret)>>]

\* switchuser: the group ids first, the user ids only when that succeeded
switchuser(c, ruid, euid, suid, rgid, egid, sgid) ==
    LET g == setresgid(c, rgid, egid, sgid)
    IN  IF g.ret = 0
        THEN LET u == setresuid(g.cred, ruid, euid, suid)
             IN  [res   |-> IF u.ret = 0 THEN "Ok" ELSE "EPERM",
                  cred  |-> u.cred,
                  calls |-> <<Call("setresgid", g.ret), Call("setresuid", u.ret)>>]
        ELSE [res |-> "EPERM", cred |-> g.cred, calls |-> <<Call("setresgid", g.ret)>>]

NoOp(c) == [res |-> "Ok", cred |-> c, calls |-> <<>>]

\* mutant: the switch is made whoever the current user is
drop_sudo_unguarded(c) ==
    LET r == getrids(Root, Root)
    IN  switchuser(c, r[1], r[1], r[1], r[2], r[2], r[2])

drop_sudo(c) ==
    IF getuid(c) = Root
    THEN LET r == getrids(Root, Root)
         IN  switchuser(c, r[1], r[1], r[1], r[2], r[2], r[2])
    ELSE NoOp(c)

\* mutant: the saved ids are given up as well
pause_sudo_saved_too(c) ==
    IF getuid(c) = Root
    THEN LET r == getrids(Root, Root)
         IN  switchuser(c, r[1], r[1], r[1], r[2], r[2], r[2])
    ELSE NoOp(c)

pause_sudo(c) ==
    IF getuid(c) = Root
    THEN LET r == getrids(Root, Root)
         IN  switchuser(c, r[1], r[1], Root, r[2], r[2], Root)
    ELSE NoOp(c)

sudo(c) == switchuser(c, Root, Root, Root, Root, Root, Root)

\* ------------------------------------------------------------ user lookup
\* a null char pointer in a passwd record
Null == "<null>"

\* getpwuid_r leaves res null when the database has no record for the uid
NoEntry == [found |-> FALSE, gid |-> 0, name |-> Null, dir |-> Null, shell |-> Null]

Entry(gid, name, dir, shell) ==
    [found |-> TRUE, gid |-> gid, name |-> name, dir |-> dir, shell |-> shell]

getpwuid_r(uid) == IF uid \in DOMAIN passwd THEN passwd[uid] ELSE NoEntry

\* to_string(ptr).unwrap_or_default(): the empty string for a null pointer
to_string_or_default(ptr) == IF ptr = Null THEN "" ELSE ptr

\* User::default()
DefaultUser ==
    [uid |-> 0, gid |-> 0, name |-> "", home |-> "", shell |-> "",
     ruid |-> 0, rgid |-> 0, realname |-> "", realhome |-> "", realshell |-> ""]

Found(user, n) == [res |-> "Ok", err_uid |-> 0, user |-> user, lookups |-> n]

DoesNotExist(uid, n) == [res |-> "DoesNotExist", err_uid |-> uid, user |-> DefaultUser, lookups |-> n]

Overrun == [res |-> "Overrun", err_uid |-> 0, user |-> DefaultUser, lookups |-> 0]

\* mutant: the real user is looked up even when it is the user itself
NeedsRealLookup_always(uid, ruid) == TRUE

\* the real user is looked up only when it is another user
NeedsRealLookup(uid, ruid) == uid # ruid

\* lookup(uid); nesting counts the calls in progress, and a call nested
\* deeper than MaxNesting is cut off as Overrun; lookups counts the calls made
RECURSIVE lookup(_, _)
lookup(uid, nesting) ==
    IF nesting > MaxNesting THEN Overrun
    ELSE LET pw == getpwuid_r(uid)
         IN  IF ~pw.found THEN DoesNotExist(uid, 1)
             ELSE LET gid       == pw.gid
                      username  == pw.name
                      userhome  == to_string_or_default(pw.dir)
                      usershell == to_string_or_default(pw.shell)
                      rids      == getrids(uid, gid)
                      ruid      == rids[1]
                      rgid      == rids[2]
                      realuser  ==
                          IF NeedsRealLookup(uid, ruid)
                          THEN lookup(ruid, nesting + 1)
                          ELSE Found([DefaultUser EXCEPT !.uid = uid, !.gid = gid,
                                          !.name = username, !.home = userhome,
                                          !.shell = usershell], 0)
                  IN  IF realuser.res # "Ok"
                      THEN [realuser EXCEPT !.lookups = IF realuser.res = "Overrun" THEN 0 ELSE @ + 1]
                      ELSE Found([uid |-> uid, gid |-> gid, name |-> username,
                                  home |-> userhome, shell |-> usershell,
                                  ruid |-> ruid, rgid |-> rgid,
                                  realname  |-> realuser.user.name,
                                  realhome  |-> realuser.user.home,
                                  realshell |-> realuser.user.shell],
                                 realuser.lookups + 1)

\* ------------------------------------------------------------------- paths
Sep == "/"

\* a byte that is not valid UTF-8: Path::to_str() gives None for such a path
InvalidByte == "?"

Ok(v) == [ok |-> TRUE, val |-> v, err |-> ""]

Err(e) == [ok |-> FALSE, val |-> <<>>, err |-> e]

\* PathExt::to_string
to_string(path) ==
    IF \E i \in 1..Len(path) : path[i] = InvalidByte
    THEN Err("FailedToString")
    ELSE Ok(path)

\* PathExt::empty
empty(path) == to_string(path).ok /\ to_string(path).val = <<>>

\* the text between the separators of a path, empty pieces included
RECURSIVE Pieces(_, _)
Pieces(path, piece) ==
    IF path = <<>> THEN <<piece>>
    ELSE IF Head(path) = Sep THEN <<piece>> \o Pieces(Tail(path), <<>>)
    ELSE Pieces(Tail(path), Append(piece, Head(path)))

CurDir == <<".">>

ParentDir == <<".", ".">>

has_root(path) == path # <<>> /\ Head(path) = Sep

\* the components after the root: empty pieces and "." are left out
RECURSIVE Body(_)
Body(pieces) ==
    IF pieces = <<>> THEN <<>>
    ELSE IF Head(pieces) = <<>> \/ Head(pieces) = CurDir THEN Body(Tail(pieces))
    ELSE <<Head(pieces)>> \o Body(Tail(pieces))

\* Path::components(): the root if the path has one, "." if the path begins
\* with it and has no root, then the body
components(path) ==
    LET pieces == Pieces(path, <<>>)
    IN  (IF has_root(path) THEN <<<<Sep>>>>
         ELSE IF Head(pieces) = CurDir THEN <<CurDir>>
         ELSE <<>>) \o Body(pieces)

\* PathBuf::push: an absolute path replaces the buffer; otherwise it is
\* appended, after a separator unless the buffer is empty or ends with one
push(buf, path) ==
    IF has_root(path) THEN path
    ELSE IF buf # <<>> /\ buf[Len(buf)] # Sep THEN buf \o <<Sep>> \o path
    ELSE buf \o path

RECURSIVE PushAll(_, _)
PushAll(buf, comps) ==
    IF comps = <<>> THEN buf ELSE PushAll(push(buf, Head(comps)), Tail(comps))

\* mutant: the first component is not pushed
clean_skip_first(path) ==
    IF ~to_string(path).ok THEN Err("FailedToString")
    ELSE LET comps    == components(path)
             path_buf == PushAll(<<>>, IF comps = <<>> THEN comps ELSE Tail(comps))
         IN  Ok(IF empty(path_buf) THEN push(path_buf, CurDir) ELSE path_buf)

\* PathExt::clean: every component is pushed, ".." included; "." if nothing
\* was pushed
clean(path) ==
    IF ~to_string(path).ok THEN Err("FailedToString")
    ELSE LET path_buf == PushAll(<<>>, components(path))
         IN  Ok(IF empty(path_buf) THEN push(path_buf, CurDir) ELSE path_buf)

\* PathBuf::join: a copy of the base with the path pushed onto it
join(base, path) == push(base, path)

Tilde == "~"

\* str::matches(c).count() for a pattern of one character
Count(s, c) == Cardinality({i \in 1..Len(s) : s[i] = c})

\* str::contains
Contains(s, value) ==
    \E i \in 0..(Len(s) - Len(value)) : SubSeq(s, i + 1, i + Len(value)) = value

\* PathExt::starts_with_str: the test the code makes is str::contains
starts_with_str(path, value) ==
    to_string(path).ok /\ Contains(to_string(path).val, value)

\* &s[n..]
From(s, n) == SubSeq(s, n + 1, Len(s))

\* the home directory of the user: the value of HOME, an error without it
user_home == IF env.HOME.set THEN Ok(env.HOME.val) ELSE Err("EnvironmentVariableMissing")

\* mutant: the separator after the tilde stays in the remainder
expand_keep_separator(path) ==
    LET path_str == to_string(path)
    IN  IF ~path_str.ok THEN path_str
        ELSE IF Count(path_str.val, Tilde) > 1 THEN Err("MultipleHomeSymbols")
        ELSE IF Count(path_str.val, Tilde) = 1 /\ ~starts_with_str(path, <<Tilde, Sep>>)
             THEN Err("InvalidExpansion")
        ELSE IF Count(path_str.val, Tilde) = 1
             THEN IF user_home.ok THEN Ok(join(user_home.val, From(path_str.val, 1)))
                  ELSE user_home
        ELSE Ok(path)

\* PathExt::expand: "Only one tilda is allowed" is MultipleHomeSymbols and
\* "Invalid home expansion requested" is InvalidExpansion
expand(path) ==
    LET path_str == to_string(path)
    IN  IF ~path_str.ok THEN path_str
        ELSE IF Count(path_str.val, Tilde) > 1 THEN Err("MultipleHomeSymbols")
        ELSE IF Count(path_str.val, Tilde) = 1 /\ ~starts_with_str(path, <<Tilde, Sep>>)
             THEN Err("InvalidExpansion")
        ELSE IF Count(path_str.val, Tilde) = 1
             THEN IF user_home.ok THEN Ok(join(user_home.val, From(path_str.val, 2)))
                  ELSE user_home
        ELSE Ok(path)

\* Components::include_cur_dir: a path without root that begins with a "."
\* segment
include_cur_dir(path) ==
    /\ ~has_root(path)
    /\ path # <<>>
    /\ path[1] = "."
    /\ (Len(path) = 1 \/ path[2] = Sep)

\* Components::len_before_body: the root and the leading "."
len_before_body(path) ==
    (IF has_root(path) THEN 1 ELSE 0) + (IF include_cur_dir(path) THEN 1 ELSE 0)

\* the last separator of the body of the path, 0 if it has none
LastSep(path, before) ==
    LET seps == {i \in (before + 1)..Len(path) : path[i] = Sep}
    IN  IF seps = {} THEN 0 ELSE CHOOSE i \in seps : \A j \in seps : j <= i

\* Components::parse_next_component_back: the last piece of the body and
\* its size, the separator before it included
BackPiece(path, before) ==
    LET sep == LastSep(path, before)
    IN  IF sep = 0
        THEN [piece |-> SubSeq(path, before + 1, Len(path)), size |-> Len(path) - before]
        ELSE [piece |-> SubSeq(path, sep + 1, Len(path)), size |-> Len(path) - sep + 1]

\* Components::trim_right: empty and "." pieces are taken off the end
RECURSIVE trim_right(_, _)
trim_right(path, before) ==
    IF Len(path) <= before THEN path
    ELSE IF BackPiece(path, before).piece \in {<<>>, CurDir}
         THEN trim_right(SubSeq(path, 1, Len(path) - BackPiece(path, before).size), before)
    ELSE path

None == [some |-> FALSE, val |-> <<>>]

Some(v) == [some |-> TRUE, val |-> v]

\* mutant: a path of one segment has no parent
parent_of_two(path) ==
    LET before  == len_before_body(path)
        trimmed == trim_right(path, before)
    IN  IF Len(trimmed) > before /\ (before > 0 \/ LastSep(trimmed, before) > 0)
        THEN Some(trim_right(SubSeq(trimmed, 1, Len(trimmed) - BackPiece(trimmed, before).size), before))
        ELSE None

\* Path::parent: the path up to its last component, what is left trimmed as
\* Components::as_path does; none when the last component is the root or
\* the path has no component
parent(path) ==
    LET before  == len_before_body(path)
        trimmed == trim_right(path, before)
    IN  IF Len(trimmed) > before
        THEN Some(trim_right(SubSeq(trimmed, 1, Len(trimmed) - BackPiece(trimmed, before).size), before))
        ELSE IF include_cur_dir(path) THEN Some(<<>>)
        ELSE None

\* PathExt::dirname
dirname(path) ==
    IF parent(path).some THEN Ok(parent(path).val) ELSE Err("ParentNotFound")

\* str::trim_end_matches: the suffix is taken off as often as it is there
RECURSIVE TrimEnd(_, _)
TrimEnd(s, value) ==
    IF value # <<>> /\ Len(s) >= Len(value) /\ SubSeq(s, Len(s) - Len(value) + 1, Len(s)) = value
    THEN TrimEnd(SubSeq(s, 1, Len(s) - Len(value)), value)
    ELSE s

\* PathExt::trim_end_matches
trim_end_matches(path, value) ==
    IF ~to_string(path).ok THEN to_string(path) ELSE Ok(TrimEnd(to_string(path).val, value))

\* Path::is_absolute
is_absolute(path) == has_root(path)

\* env::current_dir: the working directory exists and can be read
current_dir == Ok(cwd)

\* abs, after the test for the empty string: expand, trim, then resolve a
\* path without root against the working directory
Resolve(path) ==
    LET expanded == expand(path)
        trimmed  == IF Len(expanded.val) > 1
                    THEN trim_end_matches(expanded.val, <<Sep>>)
                    ELSE Ok(expanded.val)
        path_str == trimmed.val
        first    == Head(Pieces(path_str, <<>>))
    IN  IF ~expanded.ok THEN expanded
        ELSE IF ~trimmed.ok THEN trimmed
        ELSE IF is_absolute(path_str) THEN Ok(path_str)
        ELSE IF first = CurDir THEN Ok(join(current_dir.val, From(path_str, 1)))
        ELSE IF first = ParentDir
             THEN IF dirname(current_dir.val).ok
                  THEN Ok(join(dirname(current_dir.val).val, From(path_str, 2)))
                  ELSE dirname(current_dir.val)
        ELSE Ok(join(current_dir.val, path_str))

\* abs
abs(path) ==
    IF ~to_string(path).ok THEN to_string(path)
    ELSE IF to_string(path).val = <<>> THEN Err("Empty")
    ELSE Resolve(path)

\* str::starts_with
StartsWith(s, value) == Len(s) >= Len(value) /\ SubSeq(s, 1, Len(value)) = value

\* the letters of the protocol names and of the paths tried, in both cases
UpperChars == <<"F", "I", "L", "E", "T", "P", "H", "S", "X">>

LowerChars == <<"f", "i", "l", "e", "t", "p", "h", "s", "x">>

\* char::to_lowercase
LowerOf(c) ==
    IF \E k \in 1..Len(UpperChars) : UpperChars[k] = c
    THEN LowerChars[CHOOSE k \in 1..Len(UpperChars) : UpperChars[k] = c]
    ELSE c

\* str::to_lowercase
to_lowercase(s) == [i \in 1..Len(s) |-> LowerOf(s[i])]

\* str::trim_start_matches: the prefix is taken off as often as it is there
RECURSIVE trim_start_matches(_, _)
trim_start_matches(s, pat) ==
    IF pat # <<>> /\ StartsWith(s, pat) THEN trim_start_matches(From(s, Len(pat)), pat) ELSE s

ProtoFile == <<"f", "i", "l", "e", ":", "/", "/">>

ProtoFtp == <<"f", "t", "p", ":", "/", "/">>

ProtoHttp == <<"h", "t", "t", "p", ":", "/", "/">>

ProtoHttps == <<"h", "t", "t", "p", "s", ":", "/", "/">>

\* PathExt::trim_protocol: the whole text is put in lower case, then the
\* four prefixes are taken off one after the other
trim_protocol(path) ==
    IF ~to_string(path).ok THEN to_string(path)
    ELSE Ok(trim_start_matches(
                trim_start_matches(
                    trim_start_matches(
                        trim_start_matches(to_lowercase(to_string(path).val), ProtoFile),
                        ProtoFtp),
                    ProtoHttp),
                ProtoHttps))

\* env::var
var(name) == IF env[name].set THEN Ok(env[name].val) ELSE Err("EnvironmentVariableMissing")

\* home_dir
home_dir == var("HOME")

\* PathExt::mash: the path joined onto the directory
mash(dir, path) == join(dir, path)

DotConfig == <<".", "c", "o", "n", "f", "i", "g">>

DotCache == <<".", "c", "a", "c", "h", "e">>

DotLocalShare == <<".", "l", "o", "c", "a", "l", Sep, "s", "h", "a", "r", "e">>

TmpDir == <<Sep, "t", "m", "p">>

\* the override if it is set, otherwise the directory under home; an error
\* when home_dir fails
XdgDir(name, dir) ==
    IF var(name).ok THEN Ok(var(name).val)
    ELSE IF home_dir.ok THEN Ok(mash(home_dir.val, dir))
    ELSE home_dir

\* mutant: the override is looked at only when there is no home directory
config_dir_home_first ==
    IF home_dir.ok THEN Ok(mash(home_dir.val, DotConfig)) ELSE var("XDG_CONFIG_HOME")

\* config_dir
config_dir == XdgDir("XDG_CONFIG_HOME", DotConfig)

\* cache_dir
cache_dir == XdgDir("XDG_CACHE_HOME", DotCache)

\* data_dir
data_dir == XdgDir("XDG_DATA_HOME", DotLocalShare)

\* runtime_dir: a path, never an error
runtime_dir == IF var("XDG_RUNTIME_DIR").ok THEN var("XDG_RUNTIME_DIR").val ELSE TmpDir

\* the characters rand's Alphanumeric distribution draws from
Alphanumeric ==
    {"a", "b", "c", "d", "e", "f", "g", "h", "i", "j", "k", "l", "m",
     "n", "o", "p", "q", "r", "s", "t", "u", "v", "w", "x", "y", "z",
     "A", "B", "C", "D", "E", "F", "G", "H", "I", "J", "K", "L", "M",
     "N", "O", "P", "Q", "R", "S", "T", "U", "V", "W", "X", "Y", "Z",
     "0", "1", "2", "3", "4", "5", "6", "7", "8", "9"}

\* format!("/tmp/{}-{}", prefix, suffix)
TempName(prefix, suffix) == TmpDir \o <<Sep>> \o prefix \o <<"-">> \o suffix

\* mutant: the directory is never found to exist
exists_never(dir) == FALSE

\* Path::exists
exists(dir) == dir \in fs

\* sys::mkdir: the directory is created if it is not there and its path
\* returned; the error is one the file system reports, such as no permission
mkdir(dir, denied) ==
    IF denied THEN [ret |-> Err("PermissionDenied"), fs |-> fs]
    ELSE [ret |-> Ok(dir), fs |-> fs \cup {dir}]

\* finally(func): a guard that holds the closure
finally(func) == [func |-> Some(func), runs |-> 0, left |-> "no"]

\* defer!: let _defer = defer(|| ..), a guard bound to the end of the scope
defer(func) == finally(func)

\* mutant: the closure is taken out of the guard and not called
drop_forgets(guard) == [guard EXCEPT !.func = None]

\* Drop for Finally: the closure is taken out of the guard and called, if
\* it is still there
drop(guard) ==
    IF guard.func.some
    THEN [guard EXCEPT !.func = None, !.runs = guard.runs + 1]
    ELSE guard

\* ------------------------------------------------------------------ states
\* exec copies the effective ids into the saved ids
StartCreds == {Cred(ru, eu, eu, rg, eg, eg) : ru \in Ids, eu \in Ids, rg \in Ids, eg \in Ids}

\* a process started by sudo: every id is root's
AllRoot == Cred(Root, Root, Root, Root, Root, Root)

IdStrings == {<<DigitChars[i + 1]>> : i \in Ids}

\* values of SUDO_UID and SUDO_GID: an id, and text that is not a u32
EnvStrings == IdStrings \cup {<<>>, <<"x">>, <<"+", "1">>, <<"-", "1">>}

EnvValues == {Unset} \cup {Var(s) : s \in EnvStrings}

Envs == [SUDO_UID : EnvValues, SUDO_GID : EnvValues]

Uids(c) == <<c.ruid, c.euid, c.suid>>

Gids(c) == <<c.rgid, c.egid, c.sgid>>

\* which of the two id triples a call changed
Moved(before, after) ==
    {k \in {"uid", "gid"} :
        \/ k = "uid" /\ Uids(before) # Uids(after)
        \/ k = "gid" /\ Gids(before) # Gids(after)}

NoCall == [op |-> "start", res |-> "Ok", calls |-> <<>>, moved |-> {}]

NoPasswd == <<>>

\* no guard has been made
NoScope == [mode |-> "run", stack |-> <<>>, guards |-> <<>>]

\* the working directory and the directories under /tmp play no part
NoFiles == /\ cwd = <<Sep>>
           /\ fs = {}
           /\ tmp = <<>>

Idle == /\ passwd = NoPasswd
        /\ input = <<>>
        /\ out = <<>>

Init ==
    /\ ids \in StartCreds
    /\ env \in Envs
    /\ last = NoCall
    /\ dropped = FALSE
    /\ scope = NoScope
    /\ NoFiles
    /\ Idle

\* the call's effect on the process, and the record of the call
Record(op, r) ==
    /\ ids' = r.cred
    /\ last' = [op |-> op, res |-> r.res, calls |-> r.calls, moved |-> Moved(ids, r.cred)]

SwitchUser ==
    \E ru \in Ids, eu \in Ids, su \in Ids, rg \in Ids, eg \in Ids, sg \in Ids :
        /\ Record("switchuser", switchuser(ids, ru, eu, su, rg, eg, sg))
        /\ UNCHANGED <<env, dropped, passwd, input, out, cwd, fs, tmp, scope>>

\* dropped remembers that a drop_sudo() has returned Ok
DropSudo ==
    /\ Record("drop_sudo", drop_sudo(ids))
    /\ dropped' = (dropped \/ drop_sudo(ids).res = "Ok")
    /\ UNCHANGED <<env, passwd, input, out, cwd, fs, tmp, scope>>

PauseSudo ==
    /\ Record("pause_sudo", pause_sudo(ids))
    /\ UNCHANGED <<env, dropped, passwd, input, out, cwd, fs, tmp, scope>>

Sudo ==
    /\ Record("sudo", sudo(ids))
    /\ UNCHANGED <<env, dropped, passwd, input, out, cwd, fs, tmp, scope>>

\* drop_sudo, pause_sudo and sudo called in any order by any process
Next == DropSudo \/ PauseSudo \/ Sudo

Spec == Init /\ [][Next]_vars

\* switchuser called with any six ids by any process
InitSwitch ==
    /\ ids \in StartCreds
    /\ env = [SUDO_UID |-> Unset, SUDO_GID |-> Unset]
    /\ last = NoCall
    /\ dropped = FALSE
    /\ scope = NoScope
    /\ NoFiles
    /\ Idle

NextSwitch == SwitchUser

SpecSwitch == InitSwitch /\ [][NextSwitch]_vars

\* drop_sudo, pause_sudo and sudo called by a process that sudo started
InitSudo ==
    /\ ids = AllRoot
    /\ env \in Envs
    /\ last = NoCall
    /\ dropped = FALSE
    /\ scope = NoScope
    /\ NoFiles
    /\ Idle

NextSudo == DropSudo \/ PauseSudo \/ Sudo

SpecSudo == InitSudo /\ [][NextSudo]_vars

\* getrids called with any uid and gid by any process
InitRids ==
    /\ ids \in StartCreds
    /\ env \in Envs
    /\ last = NoCall
    /\ dropped = FALSE
    /\ scope = NoScope
    /\ NoFiles
    /\ passwd = NoPasswd
    /\ input \in Ids \X Ids
    /\ out = <<>>

GetRids ==
    /\ out' = <<[fn |-> "getrids", ret |-> getrids(input[1], input[2])]>>
    /\ UNCHANGED <<ids, env, last, dropped, passwd, input, cwd, fs, tmp, scope>>

NextRids == GetRids

SpecRids == InitRids /\ [][NextRids]_vars

\* the name, home and shell of a passwd record; home and shell may be null
PasswdFields == {<<"root", "/root", "/bin/sh">>, <<"user", Null, "/bin/sh">>, <<"guest", "/home", Null>>}

PasswdEntries == {NoEntry} \cup {Entry(g, f[1], f[2], f[3]) : g \in Ids, f \in PasswdFields}

\* lookup called with any uid, against any user database
InitLookup ==
    /\ ids = AllRoot
    /\ env \in Envs
    /\ last = NoCall
    /\ dropped = FALSE
    /\ scope = NoScope
    /\ NoFiles
    /\ passwd \in [Ids -> PasswdEntries]
    /\ input \in Ids
    /\ out = <<>>

Lookup ==
    /\ out' = <<[fn |-> "lookup", ret |-> lookup(input, 1)]>>
    /\ UNCHANGED <<ids, env, last, dropped, passwd, input, cwd, fs, tmp, scope>>

NextLookup == Lookup

SpecLookup == InitLookup /\ [][NextLookup]_vars

PathChars == {Sep, ".", "a", InvalidByte}

Paths == UNION {[1..n -> PathChars] : n \in 0..MaxPathLen}

\* clean called on any path, and then on its own result
InitClean ==
    /\ ids = AllRoot
    /\ env = [SUDO_UID |-> Unset, SUDO_GID |-> Unset]
    /\ last = NoCall
    /\ dropped = FALSE
    /\ scope = NoScope
    /\ NoFiles
    /\ passwd = NoPasswd
    /\ input \in Paths
    /\ out = <<>>

Clean ==
    /\ Len(out) < MaxClean
    /\ out # <<>> => out[Len(out)].ret.ok
    /\ LET arg == IF out = <<>> THEN input ELSE out[Len(out)].ret.val
       IN  out' = Append(out, [fn |-> "clean", arg |-> arg, ret |-> clean(arg)])
    /\ UNCHANGED <<ids, env, last, dropped, passwd, input, cwd, fs, tmp, scope>>

NextClean == Clean

SpecClean == InitClean /\ [][NextClean]_vars

\* paths that may hold a tilde
TildeChars == PathChars \cup {Tilde}

TildePaths == UNION {[1..n -> TildeChars] : n \in 0..MaxPathLen}

\* HOME: not set, empty, the root, a directory
HomeValues == {Unset, Var(<<>>), Var(<<Sep>>), Var(<<Sep, "h">>)}

\* expand called on any path, with any HOME
InitExpand ==
    /\ ids = AllRoot
    /\ env \in [HOME : HomeValues]
    /\ last = NoCall
    /\ dropped = FALSE
    /\ scope = NoScope
    /\ NoFiles
    /\ passwd = NoPasswd
    /\ input \in TildePaths
    /\ out = <<>>

Expand ==
    /\ out = <<>>
    /\ out' = <<[fn |-> "expand", arg |-> input, ret |-> expand(input)]>>
    /\ UNCHANGED <<ids, env, last, dropped, passwd, input, cwd, fs, tmp, scope>>

SpecExpand == InitExpand /\ [][Expand]_vars

\* working directories: the root, a directory under it, one further down
Cwds == {<<Sep>>, <<Sep, "w">>, <<Sep, "w", Sep, "d">>}

\* abs called on any path, in any working directory, with any HOME
InitAbs ==
    /\ ids = AllRoot
    /\ env \in [HOME : HomeValues]
    /\ last = NoCall
    /\ dropped = FALSE
    /\ scope = NoScope
    /\ cwd \in Cwds
    /\ fs = {}
    /\ tmp = <<>>
    /\ passwd = NoPasswd
    /\ input \in TildePaths
    /\ out = <<>>

Abs ==
    /\ out = <<>>
    /\ out' = <<[fn |-> "abs", arg |-> input, ret |-> abs(input)]>>
    /\ UNCHANGED <<ids, env, last, dropped, passwd, input, cwd, fs, tmp, scope>>

SpecAbs == InitAbs /\ [][Abs]_vars

\* dirname called on any path
InitDirname ==
    /\ ids = AllRoot
    /\ env = [SUDO_UID |-> Unset, SUDO_GID |-> Unset]
    /\ last = NoCall
    /\ dropped = FALSE
    /\ scope = NoScope
    /\ NoFiles
    /\ passwd = NoPasswd
    /\ input \in Paths
    /\ out = <<>>

Dirname ==
    /\ out = <<>>
    /\ out' = <<[fn |-> "dirname", arg |-> input, ret |-> dirname(input)]>>
    /\ UNCHANGED <<ids, env, last, dropped, passwd, input, cwd, fs, tmp, scope>>

SpecDirname == InitDirname /\ [][Dirname]_vars

\* protocol prefixes as they may be written: none, the four in lower case,
\* and in upper and mixed case
Prefixes ==
    {<<>>, ProtoFile, ProtoFtp, ProtoHttp, ProtoHttps,
     <<"F", "I", "L", "E", ":", "/", "/">>,
     <<"H", "T", "T", "P", "S", ":", "/", "/">>,
     <<"H", "t", "t", "p", ":", "/", "/">>}

RestChars == {Sep, "x", "X", InvalidByte}

Rests == UNION {[1..n -> RestChars] : n \in 0..MaxRestLen}

\* trim_protocol called on a path with none, one or two prefixes
InitProtocol ==
    /\ ids = AllRoot
    /\ env = [SUDO_UID |-> Unset, SUDO_GID |-> Unset]
    /\ last = NoCall
    /\ dropped = FALSE
    /\ scope = NoScope
    /\ NoFiles
    /\ passwd = NoPasswd
    /\ input \in {p \o q \o rest : p \in Prefixes, q \in Prefixes, rest \in Rests}
    /\ out = <<>>

TrimProtocol ==
    /\ out = <<>>
    /\ out' = <<[fn |-> "trim_protocol", arg |-> input, ret |-> trim_protocol(input)]>>
    /\ UNCHANGED <<ids, env, last, dropped, passwd, input, cwd, fs, tmp, scope>>

SpecProtocol == InitProtocol /\ [][TrimProtocol]_vars

XdgValue == <<Sep, "x">>

\* the environments of the directory functions
XdgEnvs ==
    [HOME : {Unset, Var(<<Sep, "h">>), Var(<<Sep, "g">>)},
     XDG_CONFIG_HOME : {Unset, Var(XdgValue)},
     XDG_CACHE_HOME : {Unset, Var(XdgValue)},
     XDG_DATA_HOME : {Unset, Var(XdgValue)},
     XDG_RUNTIME_DIR : {Unset, Var(XdgValue)}]

\* the directory functions called, and the environment changed, in any order
InitXdg ==
    /\ ids = AllRoot
    /\ env \in XdgEnvs
    /\ last = NoCall
    /\ dropped = FALSE
    /\ scope = NoScope
    /\ NoFiles
    /\ passwd = NoPasswd
    /\ input = <<>>
    /\ out = <<>>

\* env::set_var
SetVar ==
    \E e \in XdgEnvs :
        /\ \E name \in DOMAIN env :
            /\ e[name].set
            /\ e[name] # env[name]
            /\ \A other \in DOMAIN env \ {name} : e[other] = env[other]
        /\ env' = e
        /\ UNCHANGED <<ids, last, dropped, passwd, input, out, cwd, fs, tmp, scope>>

\* env::remove_var
RemoveVar ==
    \E name \in DOMAIN env :
        /\ env[name].set
        /\ env' = [env EXCEPT ![name] = Unset]
        /\ UNCHANGED <<ids, last, dropped, passwd, input, out, cwd, fs, tmp, scope>>

Returns(fn, ret) ==
    /\ Len(out) < MaxCalls
    /\ out' = Append(out, [fn |-> fn, ret |-> ret])
    /\ UNCHANGED <<ids, env, last, dropped, passwd, input, cwd, fs, tmp, scope>>

ConfigDir == Returns("config_dir", config_dir)

CacheDir == Returns("cache_dir", cache_dir)

DataDir == Returns("data_dir", data_dir)

RuntimeDir == Returns("runtime_dir", Ok(runtime_dir))

NextXdg == SetVar \/ RemoveVar \/ ConfigDir \/ CacheDir \/ DataDir \/ RuntimeDir

SpecXdg == InitXdg /\ [][NextXdg]_vars

\* the suffixes the random generator is seen to give
Suffixes == {[i \in 1..SuffixLen |-> ch] : ch \in {"a", "Z", "7"}}

TempPrefixes == {<<>>, <<"f", "o", "o">>}

NotCalling == [pc |-> "idle", prefix |-> <<>>, dir |-> <<>>]

\* one caller of temp_dir; /tmp is empty or has one of the directories
InitTemp ==
    /\ ids = AllRoot
    /\ env = [SUDO_UID |-> Unset, SUDO_GID |-> Unset]
    /\ last = NoCall
    /\ dropped = FALSE
    /\ scope = NoScope
    /\ cwd = <<Sep>>
    /\ fs \in {{}} \cup {{TempName(prefix, suffix)} : prefix \in TempPrefixes, suffix \in Suffixes}
    /\ tmp = <<NotCalling>>
    /\ passwd = NoPasswd
    /\ input = <<>>
    /\ out = <<>>

\* temp_dir, one turn of the loop: a suffix is drawn and the name made; if
\* no such directory exists the caller goes on to create it, otherwise it
\* draws again
TempCheck(c) ==
    /\ tmp[c].pc = "idle"
    /\ Len(out) < MaxTemp
    /\ \E prefix \in TempPrefixes, suffix \in Suffixes :
        tmp' = [tmp EXCEPT ![c] =
                    IF ~exists(TempName(prefix, suffix))
                    THEN [pc |-> "mkdir", prefix |-> prefix, dir |-> TempName(prefix, suffix)]
                    ELSE tmp[c]]
    /\ UNCHANGED <<ids, env, last, dropped, passwd, input, out, cwd, fs, scope>>

\* temp_dir, return sys::mkdir(&dir)
TempMkdir(c) ==
    /\ tmp[c].pc = "mkdir"
    /\ \E denied \in BOOLEAN :
        /\ fs' = mkdir(tmp[c].dir, denied).fs
        /\ out' = Append(out, [fn |-> "temp_dir", caller |-> c, arg |-> tmp[c].prefix,
                               ret |-> mkdir(tmp[c].dir, denied).ret])
    /\ tmp' = [tmp EXCEPT ![c] = NotCalling]
    /\ UNCHANGED <<ids, env, last, dropped, passwd, input, cwd, scope>>

\* sys::remove_all on a directory that temp_dir has returned
RemoveAll(c) ==
    /\ tmp[c].pc = "idle"
    /\ Len(out) < MaxTemp
    /\ \E i \in 1..Len(out) :
        /\ out[i].fn = "temp_dir"
        /\ out[i].ret.ok
        /\ out[i].ret.val \in fs
        /\ fs' = fs \ {out[i].ret.val}
        /\ out' = Append(out, [fn |-> "remove_all", caller |-> c, arg |-> out[i].ret.val,
                               ret |-> Ok(<<>>)])
    /\ UNCHANGED <<ids, env, last, dropped, passwd, input, cwd, tmp, scope>>

NextTemp == \E c \in DOMAIN tmp : TempCheck(c) \/ TempMkdir(c) \/ RemoveAll(c)

SpecTemp == InitTemp /\ [][NextTemp]_vars

\* two callers of temp_dir at the same time, /tmp empty at the start
InitTempRace ==
    /\ ids = AllRoot
    /\ env = [SUDO_UID |-> Unset, SUDO_GID |-> Unset]
    /\ last = NoCall
    /\ dropped = FALSE
    /\ scope = NoScope
    /\ cwd = <<Sep>>
    /\ fs = {}
    /\ tmp = <<NotCalling, NotCalling>>
    /\ passwd = NoPasswd
    /\ input = <<>>
    /\ out = <<>>

\* the steps of the two callers, interleaved in any order
NextTempRace == \E c \in DOMAIN tmp : TempCheck(c) \/ TempMkdir(c)

SpecTempRace == InitTempRace /\ [][NextTempRace]_vars

\* a function that makes guards in nested scopes, nothing made yet
InitDefer ==
    /\ ids = AllRoot
    /\ env = [SUDO_UID |-> Unset, SUDO_GID |-> Unset]
    /\ last = NoCall
    /\ dropped = FALSE
    /\ scope = NoScope
    /\ NoFiles
    /\ Idle

\* let _f = finally(..) or defer!(..) in a new scope
MakeGuard ==
    /\ scope.mode = "run"
    /\ Len(scope.guards) < MaxGuards
    /\ \E make \in {"finally", "defer"} :
        scope' = [scope EXCEPT
                    !.guards = Append(@, IF make = "finally" THEN finally(make) ELSE defer(make)),
                    !.stack = Append(@, Len(scope.guards) + 1)]
    /\ UNCHANGED <<ids, env, last, dropped, passwd, input, out, cwd, fs, tmp>>

\* the innermost guard leaves scope and is dropped; its closure may panic,
\* which starts an unwinding, or ends the process if one is under way
Leave(how) ==
    LET top == scope.stack[Len(scope.stack)]
    IN  \E panics \in BOOLEAN :
            scope' = [scope EXCEPT
                        !.guards[top] = [drop(scope.guards[top]) EXCEPT !.left = how],
                        !.stack = SubSeq(@, 1, Len(@) - 1),
                        !.mode = IF panics /\ drop(scope.guards[top]).runs > scope.guards[top].runs
                                 THEN (IF how = "panic" THEN "abort" ELSE "panic")
                                 ELSE IF Len(scope.stack) = 1 /\ how # "end" THEN "done"
                                 ELSE @]

\* the end of the innermost scope is reached
EndScope ==
    /\ scope.mode = "run"
    /\ scope.stack # <<>>
    /\ Leave("end")
    /\ UNCHANGED <<ids, env, last, dropped, passwd, input, out, cwd, fs, tmp>>

\* return from inside the scopes
Return ==
    /\ scope.mode = "run"
    /\ scope.stack # <<>>
    /\ scope' = [scope EXCEPT !.mode = "return"]
    /\ UNCHANGED <<ids, env, last, dropped, passwd, input, out, cwd, fs, tmp>>

\* a panic inside the scopes
Panic ==
    /\ scope.mode = "run"
    /\ scope.stack # <<>>
    /\ scope' = [scope EXCEPT !.mode = "panic"]
    /\ UNCHANGED <<ids, env, last, dropped, passwd, input, out, cwd, fs, tmp>>

\* the scopes are left one by one, the innermost first, on a return or an
\* unwinding panic
Unwind ==
    /\ scope.mode \in {"return", "panic"}
    /\ scope.stack # <<>>
    /\ Leave(scope.mode)
    /\ UNCHANGED <<ids, env, last, dropped, passwd, input, out, cwd, fs, tmp>>

NextDefer == MakeGuard \/ EndScope \/ Return \/ Panic \/ Unwind

SpecDefer == InitDefer /\ [][NextDefer]_vars

\* ------------------------------------------------------------------ claims
NoZero(c) == \A k \in DOMAIN c : c[k] # Root

\* the ids behind sudo, as drop_sudo and pause_sudo ask for them
RealIds == getrids(Root, Root)

SudoIdsNonZero ==
    /\ env.SUDO_UID.set /\ env.SUDO_GID.set
    /\ ParseU32(env.SUDO_UID.val).ok /\ ParseU32(env.SUDO_UID.val).val # Root
    /\ ParseU32(env.SUDO_GID.val).ok /\ ParseU32(env.SUDO_GID.val).val # Root

\* C1: switchuser calls setresgid first and setresuid second; when setresgid
\* fails, setresuid is not called, the call returns an error and the real,
\* effective and saved uid are what they were before the call.
C1_GroupBeforeUser ==
    /\ [](last.op = "switchuser" =>
            /\ Len(last.calls) >= 1
            /\ last.calls[1].fn = "setresgid"
            /\ \A i \in 2..Len(last.calls) : last.calls[i].fn = "setresuid"
            /\ Len(last.calls) <= 2
            /\ (last.calls[1].ret # 0 => Len(last.calls) = 1 /\ last.res = "EPERM"))
    /\ [][(last'.op = "switchuser" /\ last'.calls[1].ret # 0) => Uids(ids') = Uids(ids)]_vars

\* a switchuser call whose setresgid failed
C1_Witness ==
    /\ last.op = "switchuser"
    /\ last.calls = <<Call("setresgid", -1)>>
    /\ last.res = "EPERM"

\* C2 as stated: when switchuser returns an error, all six ids are what they
\* were before the call.
C2_NoPartialMutation ==
    [][(last'.op = "switchuser" /\ last'.res # "Ok") => ids' = ids]_vars

\* C2 amended: when switchuser returns an error the three user ids are what
\* they were before the call, and so are the three group ids when it is the
\* group-id set that failed (when the group-id set succeeded and the user-id
\* set failed, the group ids stay as the call set them).
C2_UidsKeptOnError ==
    [][(last'.op = "switchuser" /\ last'.res # "Ok") =>
            /\ Uids(ids') = Uids(ids)
            /\ (last'.calls[1].ret # 0 => ids' = ids)]_vars

\* a switchuser call that failed in setresuid after setresgid changed the gids
C2_Witness ==
    /\ last.op = "switchuser"
    /\ last.res = "EPERM"
    /\ Len(last.calls) = 2
    /\ last.moved = {"gid"}

\* C3: drop_sudo called with effective uid 0 and returning Ok leaves the
\* real, effective and saved uid equal to the real uid, and the three gids
\* equal to the real gid, that getrids gives.
C3_DropSwitchesToRealIds ==
    [][(geteuid(ids) = Root /\ last'.op = "drop_sudo" /\ last'.res = "Ok") =>
            ids' = Cred(RealIds[1], RealIds[1], RealIds[1], RealIds[2], RealIds[2], RealIds[2])]_vars

\* C4: in a process started by sudo with SUDO_UID and SUDO_GID non-zero, once
\* a drop_sudo has returned Ok no id is 0 and the last call is not a sudo that
\* returned Ok.
C4_DropIrreversible ==
    (SudoIdsNonZero /\ dropped) =>
        /\ NoZero(ids)
        /\ ~(last.op = "sudo" /\ last.res = "Ok")

C6_SudoNeedsSavedRoot ==
    /\ [][(ids.suid # Root /\ last'.op = "sudo") => last'.res = "EPERM"]_vars
    /\ [](last.op = "sudo" /\ last.res = "Ok" => ids = AllRoot)

\* C6 amended: sudo called when none of the real, effective and saved uid is
\* 0 returns the permission error and changes no user id; a sudo that returns
\* Ok leaves all six ids at 0.
C6_SudoNeedsSomeRootUid ==
    /\ [][(Root \notin {ids.ruid, ids.euid, ids.suid} /\ last'.op = "sudo") =>
            (last'.res = "EPERM" /\ Uids(ids') = Uids(ids))]_vars
    /\ [](last.op = "sudo" /\ last.res = "Ok" => ids = AllRoot)

\* a sudo refused for a process none of whose user ids is 0
C6_Witness ==
    /\ last.op = "sudo"
    /\ last.res = "EPERM"
    /\ Root \notin {ids.ruid, ids.euid, ids.suid}

\* C7: while no id of the process is 0, drop_sudo and pause_sudo return Ok
\* without a system call, sudo returns an error, and no call changes an id,
\* whatever SUDO_UID and SUDO_GID hold.
C7_NoEscalation ==
    [][NoZero(ids) =>
            /\ ids' = ids
            /\ (last'.op \in {"drop_sudo", "pause_sudo"} => last'.res = "Ok" /\ last'.calls = <<>>)
            /\ (last'.op = "sudo" => last'.res = "EPERM")]_vars

\* sudo refused for a process with no id 0 while SUDO_UID and SUDO_GID name root
C7_Witness ==
    /\ NoZero(ids)
    /\ last.op = "sudo"
    /\ last.res = "EPERM"
    /\ env.SUDO_UID = Var(<<"0">>)
    /\ env.SUDO_GID = Var(<<"0">>)

\* SUDO_UID and SUDO_GID are both set and both parse as a u32
SudoIdsParse ==
    /\ env.SUDO_UID.set /\ env.SUDO_GID.set
    /\ ParseU32(env.SUDO_UID.val).ok
    /\ ParseU32(env.SUDO_GID.val).ok

SudoIds == <<ParseU32(env.SUDO_UID.val).val, ParseU32(env.SUDO_GID.val).val>>

Returned(fn) == out # <<>> /\ out[Len(out)].fn = fn

\* C8 as stated: getrids(uid, gid) returns the ids parsed from SUDO_UID and
\* SUDO_GID when the effective uid of the process is 0 and both parse, and
\* (uid, gid) in every other case.
C8_RidsByEffectiveUid ==
    Returned("getrids") =>
        out[1].ret = IF geteuid(ids) = Root /\ SudoIdsParse THEN SudoIds ELSE input

\* C8 amended: getrids(uid, gid) returns the ids parsed from SUDO_UID and
\* SUDO_GID when the uid it is given is 0 and both variables are set and
\* parse as a u32, and (uid, gid) in every other case, whatever the
\* effective uid of the process is.
C8_RidsByGivenUid ==
    Returned("getrids") =>
        out[1].ret = IF input[1] = Root /\ SudoIdsParse THEN SudoIds ELSE input

\* getrids(0, gid) answering with the sudo ids in a process whose effective
\* uid is not 0
C8_Witness ==
    /\ Returned("getrids")
    /\ input[1] = Root
    /\ geteuid(ids) # Root
    /\ SudoIdsParse
    /\ out[1].ret = SudoIds
    /\ out[1].ret # input

\* the real ids getrids gives for the looked-up user
LookupRids == getrids(input, getpwuid_r(input).gid)

LookupMirrors(u) ==
    /\ u.realname = u.name
    /\ u.realhome = u.home
    /\ u.realshell = u.shell
    /\ u.ruid = u.uid

\* C9 as stated: lookup(uid) ends after at most one recursive lookup; when
\* the real uid getrids gives is uid it makes no recursive lookup and the
\* result has realname = name, realhome = home, realshell = shell, ruid = uid
\* and rgid = gid; it fails with does-not-exist when there is no record for uid.
C9_LookupTerminates ==
    Returned("lookup") =>
        LET r == out[1].ret
        IN  /\ r.res # "Overrun"
            /\ r.lookups <= 2
            /\ (getpwuid_r(input).found /\ LookupRids[1] = input =>
                    /\ r.res = "Ok"
                    /\ r.lookups = 1
                    /\ LookupMirrors(r.user)
                    /\ r.user.rgid = r.user.gid)
            /\ (~getpwuid_r(input).found => r.res = "DoesNotExist" /\ r.err_uid = input)

\* C9 amended: as stated, except that when the real uid getrids gives is uid
\* the result's rgid is the gid getrids gives, which is gid when uid is not 0
\* and the gid parsed from SUDO_GID when uid is 0 and SUDO_UID is 0.
C9_LookupTerminatesRgid ==
    Returned("lookup") =>
        LET r == out[1].ret
        IN  /\ r.res # "Overrun"
            /\ r.lookups <= 2
            /\ (getpwuid_r(input).found /\ LookupRids[1] = input =>
                    /\ r.res = "Ok"
                    /\ r.lookups = 1
                    /\ LookupMirrors(r.user)
                    /\ r.user.rgid = LookupRids[2]
                    /\ (input # Root => r.user.rgid = r.user.gid))
            /\ (~getpwuid_r(input).found => r.res = "DoesNotExist" /\ r.err_uid = input)

\* lookup(0) with SUDO_UID 0: no recursive lookup, and a real gid from
\* SUDO_GID that is not the gid of the passwd record
C9_Witness ==
    /\ Returned("lookup")
    /\ out[1].ret.res = "Ok"
    /\ out[1].ret.lookups = 1
    /\ out[1].ret.user.ruid = input
    /\ out[1].ret.user.rgid # out[1].ret.user.gid

\* lookup(0) under sudo: one recursive lookup, of the user behind sudo
C9_RecursionWitness ==
    /\ Returned("lookup")
    /\ out[1].ret.res = "Ok"
    /\ out[1].ret.lookups = 2
    /\ out[1].ret.user.ruid # input
    /\ out[1].ret.user.realname # out[1].ret.user.name

\* C10: clean applied to a path it has cleaned gives that path again:
\* clean(clean(p)) = clean(p) for every p on which clean succeeds.
C10_CleanIdempotent ==
    \A i \in 2..Len(out) :
        (out[i].fn = "clean" /\ out[i - 1].fn = "clean") =>
            /\ out[i].arg = out[i - 1].ret.val
            /\ out[i].ret = out[i - 1].ret

\* clean applied twice to a path that the first application changed
C10_Witness ==
    /\ Len(out) >= 2
    /\ out[1].fn = "clean"
    /\ out[2].fn = "clean"
    /\ out[1].arg = input
    /\ out[1].ret.val # input
    /\ \E i \in 1..Len(input) : input[i] = "a"
    /\ out[2].ret = out[1].ret

\* the segments of a path: its pieces, or none for the empty path
Segments(path) == IF path = <<>> THEN <<>> ELSE Pieces(path, <<>>)

\* the results of the successful clean calls made so far
Cleaned == {out[i].ret.val : i \in {j \in 1..Len(out) : out[j].fn = "clean" /\ out[j].ret.ok}}

\* every ".." segment of the path is in a leading run of a path without root
OnlyLeadingParentDirs(path) ==
    \A k \in 1..Len(Segments(path)) :
        Segments(path)[k] = ParentDir =>
            /\ ~has_root(path)
            /\ \A j \in 1..k : Segments(path)[j] = ParentDir

\* C11: the only ".." segments of clean(p) are a leading run of a path
\* without root: an inner ".." is removed with the segment before it
\* (clean("/a/..") = "/"), a ".." under the root is removed
\* (clean("/..") = "/"), a leading ".." of a relative path is kept.
C11_OnlyLeadingParentDirs == \A path \in Cleaned : OnlyLeadingParentDirs(path)

\* C12: clean(p) has no repeated separator, no "." segment and no trailing
\* separator unless it is the root, and is "." when nothing is left; a
\* leading "." as in "./a" is dropped.
C12_NoCurDirSegment ==
    \A path \in Cleaned :
        /\ path # <<>>
        /\ \A i \in 1..(Len(path) - 1) : ~(path[i] = Sep /\ path[i + 1] = Sep)
        /\ path[Len(path)] = Sep => path = <<Sep>>
        /\ path # CurDir => \A k \in 1..Len(Segments(path)) : Segments(path)[k] # CurDir

\* the calls of fn made so far
Calls(fn) == {out[i] : i \in {j \in 1..Len(out) : out[j].fn = fn}}

\* the path has a tilde with a separator right after it
TildeThenSep(path) ==
    \E k \in 1..(Len(path) - 1) : path[k] = Tilde /\ path[k + 1] = Sep

\* home joined with rest the way PathBuf::join joins: a rest that begins
\* with a separator stands alone, otherwise one separator is between them
Joined(home, rest) ==
    IF rest # <<>> /\ rest[1] = Sep THEN rest
    ELSE IF home = <<>> \/ home[Len(home)] = Sep THEN home \o rest
    ELSE home \o <<Sep>> \o rest

PathEq(a, b) == components(a) = components(b)

\* a path of valid text, not empty, with no tilde
PlainText(path) == to_string(path).ok /\ path # <<>> /\ Count(path, Tilde) = 0

\* the components of what the path is to resolve to: those of the working
\* directory, or of its parent when the first segment is "..", then the
\* segments of the path, the first left out when it is "." or ".."
Resolved(path) ==
    LET segs == Pieces(path, <<>>)
    IN  IF Head(segs) = CurDir THEN components(cwd) \o Body(Tail(segs))
        ELSE IF Head(segs) = ParentDir THEN components(parent(cwd).val) \o Body(Tail(segs))
        ELSE components(cwd) \o Body(segs)

\* C14: for a relative path p, abs(p) is the working directory joined with
\* the rest of p when the first segment of p is "." (abs("./x") = cwd/x),
\* the parent of the working directory joined with the rest when it is ".."
\* (abs("../x") = parent(cwd)/x), and cwd/p otherwise; abs("~/a") = home/a.
C14_AbsOfRelative ==
    \A c \in Calls("abs") :
        /\ (/\ PlainText(c.arg)
            /\ ~has_root(c.arg)
            /\ c.arg[Len(c.arg)] # Sep
            /\ Head(Pieces(c.arg, <<>>)) = ParentDir => parent(cwd).some) =>
                /\ c.ret.ok
                /\ components(c.ret.val) = Resolved(c.arg)
        /\ (c.arg = <<Tilde, Sep, "a">> /\ env.HOME = Var(<<Sep, "h">>)) =>
                c.ret = Ok(<<Sep, "h", Sep, "a">>)

\* C15: for a path p with a root and no tilde, abs(p) has a root and is p
\* with at most one trailing separator taken off, never the root separator:
\* abs of "/" and of "//" is the root, never the working directory.
C15_AbsTrimsOneSeparator ==
    \A c \in Calls("abs") :
        (PlainText(c.arg) /\ has_root(c.arg)) =>
            /\ c.ret.ok
            /\ has_root(c.ret.val)
            /\ IF \A i \in 1..Len(c.arg) : c.arg[i] = Sep
               THEN c.ret.val = <<Sep>>
               ELSE \/ c.ret.val = c.arg
                    \/ /\ c.arg[Len(c.arg)] = Sep
                       /\ c.ret.val = SubSeq(c.arg, 1, Len(c.arg) - 1)

\* C16: abs("~") succeeds and is the home directory that HOME gives.
C16_AbsOfTilde ==
    \A c \in Calls("abs") :
        (c.arg = <<Tilde>> /\ env.HOME.set) =>
            /\ c.ret.ok
            /\ PathEq(c.ret.val, env.HOME.val)

\* all but the last element
Front(seq) == SubSeq(seq, 1, Len(seq) - 1)

\* one segment and no separator
SingleSegment(path) == path # <<>> /\ \A i \in 1..Len(path) : path[i] # Sep

\* a single segment that is a name: valid text, neither "." nor ".."
NameSegment(path) ==
    SingleSegment(path) /\ to_string(path).ok /\ path \notin {CurDir, ParentDir}

\* C17: dirname(p) is p without its final component, and fails with
\* ParentNotFound whenever there is no parent: for the root and for every
\* path of a single segment with no separator; dirname("/a/a") = "/a".
C17_DirnameOfSingleSegmentFails ==
    \A c \in Calls("dirname") :
        /\ (c.arg = <<Sep>> \/ NameSegment(c.arg)) => c.ret = Err("ParentNotFound")
        /\ c.ret.ok => components(c.ret.val) = Front(components(c.arg))
        /\ c.arg = <<Sep, "a", Sep, "a">> => c.ret = Ok(<<Sep, "a">>)

\* C17 as amended: dirname(p) is p without its final component; it fails,
\* with ParentNotFound, exactly when p has no component (the empty path) or
\* none but the root ("/", "//", "/."); for a path of a single segment with
\* no separator it returns the empty path.
C17_DirnameFailsAtRootOrEmpty ==
    \A c \in Calls("dirname") :
        /\ c.ret.ok <=> /\ components(c.arg) # <<>>
                        /\ components(c.arg)[Len(components(c.arg))] # <<Sep>>
        /\ ~c.ret.ok => c.ret = Err("ParentNotFound")
        /\ c.ret.ok => /\ components(c.ret.val) = Front(components(c.arg))
                       /\ StartsWith(c.arg, c.ret.val)
        /\ SingleSegment(c.arg) => c.ret = Ok(<<>>)
        /\ c.arg = <<Sep, "a", Sep, "a">> => c.ret = Ok(<<Sep, "a">>)

\* dirname("a") has returned the empty path
C17_Witness ==
    \E c \in Calls("dirname") : c.arg = <<"a">> /\ c.ret = Ok(<<>>)

Protocols == {ProtoFile, ProtoFtp, ProtoHttp, ProtoHttps}

\* C18: trim_protocol(p) changes nothing but a leading protocol prefix: when
\* p begins, case ignored, with file://, ftp://, http:// or https:// the
\* result is the rest of p as written; otherwise it is p, character for
\* character, the case of its letters included.
C18_OnlyPrefixRemoved ==
    \A c \in Calls("trim_protocol") :
        to_string(c.arg).ok =>
            /\ \A proto \in Protocols :
                StartsWith(to_lowercase(c.arg), proto) =>
                    c.ret = Ok(From(c.arg, Len(proto)))
            /\ (\A proto \in Protocols : ~StartsWith(to_lowercase(c.arg), proto)) =>
                    c.ret = Ok(c.arg)

\* the variable that overrides a directory, and the directory under home
Override(fn) ==
    CASE fn = "config_dir" -> "XDG_CONFIG_HOME"
      [] fn = "cache_dir" -> "XDG_CACHE_HOME"
      [] fn = "data_dir" -> "XDG_DATA_HOME"
      [] fn = "runtime_dir" -> "XDG_RUNTIME_DIR"

UnderHome(fn) ==
    CASE fn = "config_dir" -> DotConfig
      [] fn = "cache_dir" -> DotCache
      [] fn = "data_dir" -> DotLocalShare

\* what the call is to return in the environment as it is now
FollowsEnvironment(c) ==
    IF env[Override(c.fn)].set THEN c.ret = Ok(env[Override(c.fn)].val)
    ELSE IF c.fn = "runtime_dir" THEN c.ret = Ok(TmpDir)
    ELSE IF env.HOME.set THEN c.ret = Ok(Joined(env.HOME.val, UnderHome(c.fn)))
    ELSE ~c.ret.ok

\* C19: config_dir, cache_dir and data_dir are computed from the environment
\* as it is at the call, after any changes made to it: the override variable
\* if it is set, otherwise HOME joined with .config, .cache, .local/share, an
\* error only when neither is set; runtime_dir is XDG_RUNTIME_DIR if set,
\* otherwise /tmp, never an error.
C19_DirsFollowEnvironment ==
    [][Len(out') > Len(out) =>
        /\ FollowsEnvironment(out'[Len(out')])
        /\ out'[Len(out')].fn = "runtime_dir" => out'[Len(out')].ret.ok]_vars

\* config_dir called twice with the environment changed in between: first
\* under home, then the override
C19_Witness ==
    /\ Len(out) >= 2
    /\ out[1] = [fn |-> "config_dir", ret |-> Ok(<<Sep, "h">> \o <<Sep>> \o DotConfig)]
    /\ out[2] = [fn |-> "config_dir", ret |-> Ok(XdgValue)]

\* /tmp/<prefix>-<8 alphanumeric characters>
TempForm(dir, prefix) ==
    /\ Len(dir) = Len(TmpDir) + 1 + Len(prefix) + 1 + 8
    /\ StartsWith(dir, TmpDir \o <<Sep>> \o prefix \o <<"-">>)
    /\ \A i \in (Len(dir) - 7)..Len(dir) : dir[i] \in Alphanumeric

\* the directory that call i returned has not been removed since
NotRemovedSince(i) ==
    \A j \in (i + 1)..Len(out) :
        ~(out[j].fn = "remove_all" /\ out[j].arg = out[i].ret.val)

\* C20: a temp_dir(prefix) that succeeds returns /tmp/<prefix>-<8
\* alphanumeric characters>, a path that did not exist before and is a
\* directory right after; two calls, the first directory not removed in
\* between, return different paths.
C20_TempDirIsNew ==
    [][(/\ Len(out') > Len(out)
        /\ out'[Len(out')].fn = "temp_dir"
        /\ out'[Len(out')].ret.ok) =>
            /\ TempForm(out'[Len(out')].ret.val, out'[Len(out')].arg)
            /\ out'[Len(out')].ret.val \notin fs
            /\ out'[Len(out')].ret.val \in fs'
            /\ \A i \in 1..Len(out) :
                (out[i].fn = "temp_dir" /\ out[i].ret.ok /\ NotRemovedSince(i)) =>
                    out[i].ret.val # out'[Len(out')].ret.val]_vars

\* temp_dir("foo") twice, the first directory still there: two paths
C20_Witness ==
    /\ Len(out) >= 2
    /\ out[1].fn = "temp_dir" /\ out[1].ret.ok /\ out[1].arg = <<"f", "o", "o">>
    /\ out[2].fn = "temp_dir" /\ out[2].ret.ok /\ out[2].arg = <<"f", "o", "o">>
    /\ out[1].ret.val # out[2].ret.val
    /\ {out[1].ret.val, out[2].ret.val} \subseteq fs

\* C22: expand puts the home directory only in a path that begins with
\* "~/": for a path whose text does not begin with "~/" (one with a single
\* tilde further on and a separator after it too, such as "a~/b") expand
\* fails or returns the path unchanged.
C22_ExpandOnlyLeadingTilde ==
    \A c \in Calls("expand") :
        ~StartsWith(c.arg, <<Tilde, Sep>>) => (~c.ret.ok \/ c.ret.val = c.arg)

\* C23: two callers that run temp_dir with the same prefix at the same
\* time, their existence tests and mkdirs interleaved in any order, never
\* both return the same path.
C23_NoSharedTempDir ==
    \A i \in 1..Len(out), j \in 1..Len(out) :
        (/\ out[i].fn = "temp_dir" /\ out[i].ret.ok
         /\ out[j].fn = "temp_dir" /\ out[j].ret.ok
         /\ out[i].caller # out[j].caller
         /\ out[i].arg = out[j].arg) =>
            out[i].ret.val # out[j].ret.val

InScope(g) == \E k \in 1..Len(scope.stack) : scope.stack[k] = g

\* C21: the closure of a guard does not run while the guard is in scope,
\* and has run exactly once when the guard has left scope, whether by the
\* end of the scope, an early return or an unwinding panic: never twice,
\* never skipped.
C21_RunsOnceOnExit ==
    \A g \in 1..Len(scope.guards) :
        /\ InScope(g) => (scope.guards[g].runs = 0 /\ scope.guards[g].left = "no")
        /\ ~InScope(g) => /\ scope.guards[g].runs = 1
                          /\ scope.guards[g].left \in {"end", "return", "panic"}

\* three guards have left scope, one by each way, and each closure has run
C21_Witness ==
    /\ \A how \in {"end", "return", "panic"} :
        \E g \in 1..Len(scope.guards) :
            ~InScope(g) /\ scope.guards[g].left = how /\ scope.guards[g].runs = 1
    /\ scope.stack = <<>>

====
